---- MODULE Spec2Model ----
(***************************************************************************)
(* Model of Wunkolo/qreverse: the in-place array reversal qReverse<S> of   *)
(* src/include/qreverse.hpp and the earlier qreverse<Type>/qreverse_imp of *)
(* src/qreverse.hpp, with the byte-swap helpers and the SIMD kernels they  *)
(* use.  Memory is a window of bytes around the array; registers are       *)
(* functions from byte index to byte; integers wider than a byte are bit   *)
(* vectors, so masks and shifts are computed bit by bit.                   *)
(***************************************************************************)
EXTENDS Integers, Sequences, FiniteSets, TLC

\* ------------------------------------------------------------------ bounds
\* Largest array, in bytes, that a call is given.
MaxBytes == 136
\* Bytes of foreign memory modelled below and above the array.
Guard == 16
\* Modulus of std::size_t arithmetic in the model (stands for 2^64).
SizeTModulus == 4096
\* Number of initial buffer contents tried.
NumPatterns == 2
\* Number of successive calls on the same buffer.
MaxCalls == 2
\* Number of distinct byte values the byte-swap inputs are built from.
NumSwapBytes == 3

\* ------------------------------------------------------- bits and bytes
Pow2(n) == 2^n

\* The unsigned integer stored little-endian in the bytes r[0..n-1].
BitsOf(r, n) == [k \in 0..(8 * n - 1) |-> (r[k \div 8] \div Pow2(k % 8)) % 2]

\* The n bytes, least significant first, of the bit vector x.
BytesOf(x, n) ==
    [b \in 0..(n - 1) |->
        x[8*b] + 2*x[8*b+1] + 4*x[8*b+2] + 8*x[8*b+3]
        + 16*x[8*b+4] + 32*x[8*b+5] + 64*x[8*b+6] + 128*x[8*b+7]]

\* A hexadecimal literal of n bytes, written most significant byte first.
Lit(hex, n) ==
    [k \in 0..(8 * n - 1) |-> (hex[n - (k \div 8)] \div Pow2(k % 8)) % 2]

\* x & y
BitAnd(x, y) == [k \in DOMAIN x |-> x[k] * y[k]]

\* x | y
BitOr(x, y) == [k \in DOMAIN x |-> IF x[k] + y[k] > 0 THEN 1 ELSE 0]

\* x << n, in the width of x
ShiftLeft(x, n) == [k \in DOMAIN x |-> IF k - n \in DOMAIN x THEN x[k - n] ELSE 0]

\* x >> n (logical)
ShiftRight(x, n) == [k \in DOMAIN x |-> IF k + n \in DOMAIN x THEN x[k + n] ELSE 0]

\* Integer promotion / conversion of x to w bits.
Convert(x, w) == [k \in 0..(w - 1) |-> IF k \in DOMAIN x THEN x[k] ELSE 0]

\* ------------------------------------------------- scalar byte swaps
Swap64(x) ==
    BitOr(ShiftLeft(BitAnd(x, Lit(<<0, 0, 0, 0, 0, 0, 0, 255>>, 8)), 56),
    BitOr(ShiftLeft(BitAnd(x, Lit(<<0, 0, 0, 0, 0, 0, 255, 0>>, 8)), 40),
    BitOr(ShiftLeft(BitAnd(x, Lit(<<0, 0, 0, 0, 0, 255, 0, 0>>, 8)), 24),
    BitOr(ShiftLeft(BitAnd(x, Lit(<<0, 0, 0, 0, 255, 0, 0, 0>>, 8)), 8),
    BitOr(ShiftRight(BitAnd(x, Lit(<<0, 0, 0, 255, 0, 0, 0, 0>>, 8)), 8),
    BitOr(ShiftRight(BitAnd(x, Lit(<<0, 0, 255, 0, 0, 0, 0, 0>>, 8)), 24),
    BitOr(ShiftRight(BitAnd(x, Lit(<<0, 255, 0, 0, 0, 0, 0, 0>>, 8)), 40),
          ShiftRight(BitAnd(x, Lit(<<255, 0, 0, 0, 0, 0, 0, 0>>, 8)), 56))))))))

\* Swap32 with the third term shifted by 16 instead of 8.
Swap32_ShiftSlip(x) ==
    BitOr(ShiftLeft(BitAnd(x, Lit(<<0, 0, 0, 255>>, 4)), 24),
    BitOr(ShiftLeft(BitAnd(x, Lit(<<0, 0, 255, 0>>, 4)), 8),
    BitOr(ShiftRight(BitAnd(x, Lit(<<0, 255, 0, 0>>, 4)), 16),
          ShiftRight(BitAnd(x, Lit(<<255, 0, 0, 0>>, 4)), 24))))

Swap32(x) ==
    BitOr(ShiftLeft(BitAnd(x, Lit(<<0, 0, 0, 255>>, 4)), 24),
    BitOr(ShiftLeft(BitAnd(x, Lit(<<0, 0, 255, 0>>, 4)), 8),
    BitOr(ShiftRight(BitAnd(x, Lit(<<0, 255, 0, 0>>, 4)), 8),
          ShiftRight(BitAnd(x, Lit(<<255, 0, 0, 0>>, 4)), 24))))

\* Swap16 with the high byte shifted out instead of down.
Swap16_ShiftSlip(x) ==
    Convert(
        BitOr(ShiftLeft(BitAnd(Convert(x, 32), Lit(<<0, 0, 0, 255>>, 4)), 8),
              ShiftRight(BitAnd(Convert(x, 32), Lit(<<0, 0, 255, 0>>, 4)), 16)),
        16)

\* The operand is promoted to int, the result converted back to 16 bits.
Swap16(x) ==
    Convert(
        BitOr(ShiftLeft(BitAnd(Convert(x, 32), Lit(<<0, 0, 0, 255>>, 4)), 8),
              ShiftRight(BitAnd(Convert(x, 32), Lit(<<0, 0, 255, 0>>, 4)), 8)),
        16)

\* ------------------------------------------------------ SIMD intrinsics
\* A register of n bytes is a function from 0..n-1 (byte 0 lowest) to bytes.

\* _mm_set_epi8(e15, ..., e0) and _mm256_set_epi8(e31, ..., e0)
mm_set_epi8(e) == [k \in 0..15 |-> e[16 - k]]
mm256_set_epi8(e) == [k \in 0..31 |-> e[32 - k]]

\* _mm256_setr_epi32(e0, ..., e7): eight dwords, lowest first
mm256_setr_epi32(e) == [d \in 0..7 |-> e[d + 1]]

\* _mm512_set_epi32(e15, ..., e0) as 64 bytes
mm512_set_epi32(e) ==
    [k \in 0..63 |-> (e[16 - (k \div 4)] \div Pow2(8 * (k % 4))) % 256]

\* _mm512_set_epi64(e7, ..., e0): eight qwords, as indices
mm512_set_epi64(e) == [q \in 0..7 |-> e[8 - q]]

\* _MM_SHUFFLE(z, y, x, w)
MM_SHUFFLE(z, y, x, w) == z * 64 + y * 16 + x * 4 + w

\* pshufb on one 128-bit lane and on every 128-bit lane of wider registers
mm_shuffle_epi8(a, b) ==
    [k \in DOMAIN a |->
        IF b[k] >= 128 THEN 0 ELSE a[16 * (k \div 16) + (b[k] % 16)]]
mm256_shuffle_epi8(a, b) == mm_shuffle_epi8(a, b)
mm512_shuffle_epi8(a, b) == mm_shuffle_epi8(a, b)

\* _mm_shuffle_epi32(a, imm8)
mm_shuffle_epi32(a, imm) ==
    [k \in 0..15 |-> a[4 * ((imm \div Pow2(2 * (k \div 4))) % 4) + (k % 4)]]

\* _mm_alignr_epi8(a, b, n): bytes n.. of the 32-byte value a:b
mm_alignr_epi8(a, b, n) ==
    [k \in 0..15 |->
        IF k + n < 16 THEN b[k + n]
        ELSE IF k + n < 32 THEN a[k + n - 16] ELSE 0]

\* One 128-bit half chosen by a 4-bit selector of vperm2i128 / vperm2f128
Select128(a, b, ctl, k) ==
    IF (ctl \div 8) % 2 = 1 THEN 0
    ELSE CASE ctl % 4 = 0 -> a[k]
           [] ctl % 4 = 1 -> a[16 + k]
           [] ctl % 4 = 2 -> b[k]
           [] ctl % 4 = 3 -> b[16 + k]

mm256_permute2x128_si256(a, b, imm) ==
    [k \in 0..31 |->
        IF k < 16 THEN Select128(a, b, imm % 16, k)
        ELSE Select128(a, b, (imm \div 16) % 16, k - 16)]
mm256_permute2f128_si256(a, b, imm) == mm256_permute2x128_si256(a, b, imm)

\* _mm256_permute4x64_epi64(a, imm8)
mm256_permute4x64_epi64(a, imm) ==
    [k \in 0..31 |-> a[8 * ((imm \div Pow2(2 * (k \div 8))) % 4) + (k % 8)]]

\* _mm256_permutevar8x32_epi32(a, idx)
mm256_permutevar8x32_epi32(a, idx) ==
    [k \in 0..31 |-> a[4 * (idx[k \div 4] % 8) + (k % 4)]]

\* _mm512_permutexvar_epi64(idx, a)
mm512_permutexvar_epi64(idx, a) ==
    [k \in 0..63 |-> a[8 * (idx[k \div 8] % 8) + (k % 8)]]

\* ------------------------------------------------------------- state
VARIABLES
    impl,         \* "qReverse" (include/qreverse.hpp) or "qreverse" (qreverse.hpp)
    ElementSize,  \* the template argument: bytes per element
    Count,        \* the element count passed by the caller
    feat,         \* SIMD feature macros defined for the build
    pat,          \* which initial content the buffer was given
    calls,        \* calls started so far on this buffer
    pc,           \* the loop the call is in
    i, j,         \* qReverse: element cursor and loop counter
    Start, End,   \* qreverse_imp: lower and upper element cursors
    mem,          \* memory around the array, address 0 = Array
    log,          \* steps executed by the current call, oldest first
    written,      \* addresses stored to by the current call
    rewritten,    \* addresses stored to more than once by the current call
    touched,      \* addresses loaded or stored by the current call
    swIn, swOut   \* operand and result of a byte-swap helper

vars == <<impl, ElementSize, Count, feat, pat, calls, pc, i, j, Start, End,
          mem, log, written, rewritten, touched, swIn, swOut>>

Features == {"AVX512", "AVX2", "SSSE3"}
ElementSizes == {1, 2, 3, 4, 8, 16}

Addr == (0 - Guard)..(MaxBytes + Guard - 1)
Region == 0..(Count * ElementSize - 1)

\* Initial content number p of the byte at window position k.
Pattern(p, k) == IF p = 1 THEN k + 1 ELSE 250 - (k % (p + 3))
InitMem(p) == [a \in Addr |-> Pattern(p, a + Guard)]

\* std::size_t arithmetic and the byte offset of Values[idx] from Values.
SizeT(x) == x % SizeTModulus
Signed(x) == IF x >= SizeTModulus \div 2 THEN x - SizeTModulus ELSE x
ByteOff(idx, S) == Signed(SizeT(idx * S))

\* ---------------------------------------------------------- memory access
Load(m, a, n) == [k \in 0..(n - 1) |-> IF a + k \in DOMAIN m THEN m[a + k] ELSE 0]
Store(m, a, n, r) ==
    [x \in DOMAIN m |-> IF x \in a..(a + n - 1) THEN r[x - a] ELSE m[x]]

\* The part of the call's state that the loops change.
Frame ==
    [pc |-> pc, i |-> i, j |-> j, Start |-> Start, End |-> End, mem |-> mem,
     log |-> log, written |-> written, rewritten |-> rewritten,
     touched |-> touched]

SetFrame(f) ==
    /\ pc' = f.pc /\ i' = f.i /\ j' = f.j /\ Start' = f.Start /\ End' = f.End
    /\ mem' = f.mem /\ log' = f.log /\ written' = f.written
    /\ rewritten' = f.rewritten /\ touched' = f.touched
    /\ UNCHANGED <<impl, ElementSize, Count, feat, pat, swIn, swOut>>

\* One step: w bytes at address a and w bytes at address b were loaded, atA
\* is stored at a and then atB at b.  An access that leaves the array is
\* undefined: it either hits whatever memory is there or traps (trap); an
\* access that leaves the modelled window traps.
Exchange(f, tier, a, b, w, atA, atB, region, trap) ==
    LET lower == a..(a + w - 1)
        upper == b..(b + w - 1)
        entry == [tier |-> tier, w |-> w, lo |-> a, hi |-> b + w]
    IN  IF ~((lower \cup upper) \subseteq Addr)
           \/ (trap /\ ~((lower \cup upper) \subseteq region))
        THEN [f EXCEPT !.pc = "fault",
                       !.touched = @ \cup (lower \cup upper),
                       !.log = Append(@, entry)]
        ELSE [f EXCEPT !.mem = Store(Store(f.mem, a, w, atA), b, w, atB),
                       !.written = @ \cup (lower \cup upper),
                       !.rewritten = @ \cup (f.written \cap (lower \cup upper))
                                       \cup (lower \cap upper),
                       !.touched = @ \cup (lower \cup upper),
                       !.log = Append(@, entry)]

\* The loop body without its i += n.
Advance_NoCursor(f, n) ==
    IF f.pc = "fault" THEN f ELSE [f EXCEPT !.j = @ + 1]

\* i += n; ++j after a loop body of qReverse (not reached after a trap).
Advance(f, n) ==
    IF f.pc = "fault" THEN f ELSE [f EXCEPT !.i = @ + n, !.j = @ + 1]

\* Start += n; End -= n after a loop body of qreverse_imp.
Shrink(f, n) ==
    IF f.pc = "fault" THEN f
    ELSE [f EXCEPT !.Start = SizeT(@ + n), !.End = SizeT(@ - n)]

\* ------------------------------------------- which loops a build contains
Compiled(t, fs) ==
    CASE t = "q1_avx512" -> "AVX512" \in fs
      [] t = "q1_avx2" -> "AVX2" \in fs
      [] t \in {"q1_ssse3", "q2_ssse3", "q4_ssse3"} -> "SSSE3" \in fs
      [] OTHER -> TRUE

\* Every loop counter started at i, as the wider loops start theirs.
LoopCounter_Unscaled(t, n) == n

\* Every loop counter restarted at zero.
LoopCounter_Zero(t, n) == 0

\* The initial value of the loop counter j of loop t, given i.
LoopCounter(t, n) ==
    CASE t \in {"q1_avx512", "q1_avx2", "q1_ssse3", "q1_bswap64",
                "q2_ssse3", "q4_ssse3"} -> n
      [] t = "q1_bswap32" -> n \div 4
      [] t = "q1_bswap16" -> n \div 2
      [] OTHER -> 0

Q1Order == <<"q1_avx512", "q1_avx2", "q1_ssse3", "q1_bswap64", "q1_bswap32",
             "q1_bswap16", "q1_naive", "done">>
Q2Order == <<"q2_ssse3", "q2_naive", "done">>
Q4Order == <<"q4_ssse3", "q4_naive", "done">>
QNOrder == <<"qN_naive", "done">>

\* Control reaches the first compiled loop at or after position k of order.
RECURSIVE Enter(_, _, _, _)
Enter(f, order, k, fs) ==
    IF Compiled(order[k], fs)
    THEN [f EXCEPT !.pc = order[k], !.j = LoopCounter(order[k], f.i)]
    ELSE Enter(f, order, k + 1, fs)

\* ------------------------------------ qReverse<1>, include/qreverse.hpp
\* Each operator is one evaluation of a loop condition: the body runs once,
\* or control leaves the loop for the next compiled one.
Q1_AVX512(f, n, fs) ==
    IF f.j < ((n \div 2) \div 64)
    THEN LET ShuffleRev8 == mm512_set_epi32(
                 <<66051, 67438087, 134810123, 202182159,
                   66051, 67438087, 134810123, 202182159,
                   66051, 67438087, 134810123, 202182159,
                   66051, 67438087, 134810123, 202182159>>)
             ShuffleRev64 == mm512_set_epi64(<<1, 0, 3, 2, 5, 4, 7, 6>>)
             a == ByteOff(f.i, 1)
             b == ByteOff(SizeT(n - f.i - 64), 1)
             Lower == mm512_permutexvar_epi64(ShuffleRev64,
                          mm512_shuffle_epi8(Load(f.mem, a, 64), ShuffleRev8))
             Upper == mm512_permutexvar_epi64(ShuffleRev64,
                          mm512_shuffle_epi8(Load(f.mem, b, 64), ShuffleRev8))
         IN  Advance(Exchange(f, "q1_avx512", a, b, 64, Upper, Lower,
                              0..(n - 1), FALSE), 64)
    ELSE Enter(f, Q1Order, 2, fs)

\* The 32-byte loop without the exchange of the two 128-bit lanes.
Q1_AVX2_NoLaneSwap(f, n, fs) ==
    IF f.j < ((n \div 2) \div 32)
    THEN LET ShuffleRev == mm256_set_epi8(
                 <<0, 1, 2, 3, 4, 5, 6, 7, 8, 9, 10, 11, 12, 13, 14, 15,
                   0, 1, 2, 3, 4, 5, 6, 7, 8, 9, 10, 11, 12, 13, 14, 15>>)
             a == ByteOff(f.i, 1)
             b == ByteOff(SizeT(n - f.i - 32), 1)
             Lower == mm256_shuffle_epi8(Load(f.mem, a, 32), ShuffleRev)
             Upper == mm256_shuffle_epi8(Load(f.mem, b, 32), ShuffleRev)
         IN  Advance(Exchange(f, "q1_avx2", a, b, 32, Upper, Lower,
                              0..(n - 1), FALSE), 32)
    ELSE Enter(f, Q1Order, 3, fs)

Q1_AVX2(f, n, fs) ==
    IF f.j < ((n \div 2) \div 32)
    THEN LET ShuffleRev == mm256_set_epi8(
                 <<0, 1, 2, 3, 4, 5, 6, 7, 8, 9, 10, 11, 12, 13, 14, 15,
                   0, 1, 2, 3, 4, 5, 6, 7, 8, 9, 10, 11, 12, 13, 14, 15>>)
             a == ByteOff(f.i, 1)
             b == ByteOff(SizeT(n - f.i - 32), 1)
             Lower0 == mm256_shuffle_epi8(Load(f.mem, a, 32), ShuffleRev)
             Upper0 == mm256_shuffle_epi8(Load(f.mem, b, 32), ShuffleRev)
             Lower == mm256_permute2x128_si256(Lower0, Lower0, 1)
             Upper == mm256_permute2x128_si256(Upper0, Upper0, 1)
         IN  Advance(Exchange(f, "q1_avx2", a, b, 32, Upper, Lower,
                              0..(n - 1), FALSE), 32)
    ELSE Enter(f, Q1Order, 3, fs)

Q1_SSSE3(f, n, fs) ==
    IF f.j < ((n \div 2) \div 16)
    THEN LET ShuffleRev == mm_set_epi8(
                 <<0, 1, 2, 3, 4, 5, 6, 7, 8, 9, 10, 11, 12, 13, 14, 15>>)
             a == ByteOff(f.i, 1)
             b == ByteOff(SizeT(n - f.i - 16), 1)
             Lower == mm_shuffle_epi8(Load(f.mem, a, 16), ShuffleRev)
             Upper == mm_shuffle_epi8(Load(f.mem, b, 16), ShuffleRev)
         IN  Advance(Exchange(f, "q1_ssse3", a, b, 16, Upper, Lower,
                              0..(n - 1), FALSE), 16)
    ELSE Enter(f, Q1Order, 4, fs)

Q1_BSWAP64(f, n, fs) ==
    IF f.j < ((n \div 2) \div 8)
    THEN LET a == ByteOff(f.i, 1)
             b == ByteOff(SizeT(n - f.i - 8), 1)
             Lower == Swap64(BitsOf(Load(f.mem, a, 8), 8))
             Upper == Swap64(BitsOf(Load(f.mem, b, 8), 8))
         IN  Advance(Exchange(f, "q1_bswap64", a, b, 8, BytesOf(Upper, 8),
                              BytesOf(Lower, 8), 0..(n - 1), FALSE), 8)
    ELSE Enter(f, Q1Order, 5, fs)

Q1_BSWAP32(f, n, fs) ==
    IF f.j < ((n \div 2) \div 4)
    THEN LET a == ByteOff(f.i, 1)
             b == ByteOff(SizeT(n - f.i - 4), 1)
             Lower == Swap32(BitsOf(Load(f.mem, a, 4), 4))
             Upper == Swap32(BitsOf(Load(f.mem, b, 4), 4))
         IN  Advance(Exchange(f, "q1_bswap32", a, b, 4, BytesOf(Upper, 4),
                              BytesOf(Lower, 4), 0..(n - 1), FALSE), 4)
    ELSE Enter(f, Q1Order, 6, fs)

Q1_BSWAP16(f, n, fs) ==
    IF f.j < ((n \div 2) \div 2)
    THEN LET a == ByteOff(f.i, 1)
             b == ByteOff(SizeT(n - f.i - 2), 1)
             Lower == Swap16(BitsOf(Load(f.mem, a, 2), 2))
             Upper == Swap16(BitsOf(Load(f.mem, b, 2), 2))
         IN  Advance(Exchange(f, "q1_bswap16", a, b, 2, BytesOf(Upper, 2),
                              BytesOf(Lower, 2), 0..(n - 1), FALSE), 2)
    ELSE Enter(f, Q1Order, 7, fs)

\* The naive loop without the temporary: the lower element is overwritten
\* before it is copied to the upper one.
NaiveSwap_NoTemp(f, n, S, tier) ==
    IF f.i < n \div 2
    THEN LET a == ByteOff(f.i, S)
             b == ByteOff(SizeT(n - f.i - 1), S)
             g == Exchange(f, tier, a, b, S, Load(f.mem, b, S),
                           Load(f.mem, b, S), 0..(n * S - 1), FALSE)
         IN  IF g.pc = "fault" THEN g ELSE [g EXCEPT !.i = @ + 1]
    ELSE [f EXCEPT !.pc = "done"]

\* The naive loops: for( ; i < Count / 2; ++i ) exchanging whole elements.
NaiveSwap(f, n, S, tier) ==
    IF f.i < n \div 2
    THEN LET a == ByteOff(f.i, S)
             b == ByteOff(SizeT(n - f.i - 1), S)
             g == Exchange(f, tier, a, b, S, Load(f.mem, b, S),
                           Load(f.mem, a, S), 0..(n * S - 1), FALSE)
         IN  IF g.pc = "fault" THEN g ELSE [g EXCEPT !.i = @ + 1]
    ELSE [f EXCEPT !.pc = "done"]

Q1_Naive(f, n) == NaiveSwap(f, n, 1, "q1_naive")

\* ------------------------------------ qReverse<2>, include/qreverse.hpp
Q2_SSSE3(f, n, fs) ==
    IF f.j < ((n \div 2) \div 8)
    THEN LET ShuffleRev == mm_set_epi8(
                 <<1, 0, 3, 2, 5, 4, 7, 6, 9, 8, 11, 10, 13, 12, 15, 14>>)
             a == ByteOff(f.i, 2)
             b == ByteOff(SizeT(n - f.i - 8), 2)
             Lower == mm_shuffle_epi8(Load(f.mem, a, 16), ShuffleRev)
             Upper == mm_shuffle_epi8(Load(f.mem, b, 16), ShuffleRev)
         IN  Advance(Exchange(f, "q2_ssse3", a, b, 16, Upper, Lower,
                              0..(2 * n - 1), FALSE), 8)
    ELSE Enter(f, Q2Order, 2, fs)

Q2_Naive(f, n) == NaiveSwap(f, n, 2, "q2_naive")

\* ------------------------------------ qReverse<4>, include/qreverse.hpp
\* The 16-byte loop of four-byte elements with the identity shuffle.
Q4_SSSE3_IdentityShuffle(f, n, fs) ==
    IF f.j < ((n \div 2) \div 4)
    THEN LET a == ByteOff(f.i, 4)
             b == ByteOff(SizeT(n - f.i - 4), 4)
             Lower == mm_shuffle_epi32(Load(f.mem, a, 16), MM_SHUFFLE(3, 2, 1, 0))
             Upper == mm_shuffle_epi32(Load(f.mem, b, 16), MM_SHUFFLE(3, 2, 1, 0))
         IN  Advance(Exchange(f, "q4_ssse3", a, b, 16, Upper, Lower,
                              0..(4 * n - 1), FALSE), 4)
    ELSE Enter(f, Q4Order, 2, fs)

Q4_SSSE3(f, n, fs) ==
    IF f.j < ((n \div 2) \div 4)
    THEN LET a == ByteOff(f.i, 4)
             b == ByteOff(SizeT(n - f.i - 4), 4)
             Lower == mm_shuffle_epi32(Load(f.mem, a, 16), MM_SHUFFLE(0, 1, 2, 3))
             Upper == mm_shuffle_epi32(Load(f.mem, b, 16), MM_SHUFFLE(0, 1, 2, 3))
         IN  Advance(Exchange(f, "q4_ssse3", a, b, 16, Upper, Lower,
                              0..(4 * n - 1), FALSE), 4)
    ELSE Enter(f, Q4Order, 2, fs)

Q4_Naive(f, n) == NaiveSwap(f, n, 4, "q4_naive")

\* ------------------------- generic qReverse<S>, include/qreverse.hpp
QN_Naive(f, n, S) == NaiveSwap(f, n, S, "qN_naive")

\* The body of qReverse<S>(Array, Count) up to its first loop condition.
QReverseEntry(f, S, fs) ==
    LET g == [f EXCEPT !.i = 0, !.j = 0, !.log = <<>>, !.written = {},
                       !.rewritten = {}, !.touched = {}]
    IN  CASE S = 1 -> Enter(g, Q1Order, 1, fs)
          [] S = 2 -> Enter(g, Q2Order, 1, fs)
          [] S = 4 -> Enter(g, Q4Order, 1, fs)
          [] OTHER -> Enter(g, QNOrder, 1, fs)

\* One loop-condition evaluation of qReverse<S>, whichever loop it is in.
QReverseStep(f, n, S, fs) ==
    CASE f.pc = "q1_avx512" -> Q1_AVX512(f, n, fs)
      [] f.pc = "q1_avx2" -> Q1_AVX2(f, n, fs)
      [] f.pc = "q1_ssse3" -> Q1_SSSE3(f, n, fs)
      [] f.pc = "q1_bswap64" -> Q1_BSWAP64(f, n, fs)
      [] f.pc = "q1_bswap32" -> Q1_BSWAP32(f, n, fs)
      [] f.pc = "q1_bswap16" -> Q1_BSWAP16(f, n, fs)
      [] f.pc = "q1_naive" -> Q1_Naive(f, n)
      [] f.pc = "q2_ssse3" -> Q2_SSSE3(f, n, fs)
      [] f.pc = "q2_naive" -> Q2_Naive(f, n)
      [] f.pc = "q4_ssse3" -> Q4_SSSE3(f, n, fs)
      [] f.pc = "q4_naive" -> Q4_Naive(f, n)
      [] f.pc = "qN_naive" -> QN_Naive(f, n, S)
      [] OTHER -> f

\* ------------------------------------------- qreverse_imp, qreverse.hpp
\* The span of the middle, not halved.
HalfSpan_NotHalved(f) == SizeT(f.End - f.Start + 1)

\* (End - Start + 1)/2, in std::size_t
HalfSpan(f) == SizeT(f.End - f.Start + 1) \div 2

\* Two registers stored at consecutive addresses, lo first.
Concat(lo, hi, n) == [k \in 0..(2 * n - 1) |-> IF k < n THEN lo[k] ELSE hi[k - n]]

ImpRegion(n, S) == 0..(n * S - 1)

\* The 64-byte loop storing the two lower registers in loading order.
Imp8_AVX512_StoreOrder(f, n) ==
    IF HalfSpan(f) >= 8
    THEN LET a == ByteOff(f.Start, 8)
             e == ByteOff(SizeT(f.End + 1), 8)
             A1 == mm256_permute4x64_epi64(Load(f.mem, a, 32), MM_SHUFFLE(0, 1, 2, 3))
             A2 == mm256_permute4x64_epi64(Load(f.mem, a + 32, 32), MM_SHUFFLE(0, 1, 2, 3))
             B1 == mm256_permute4x64_epi64(Load(f.mem, e - 32, 32), MM_SHUFFLE(0, 1, 2, 3))
             B2 == mm256_permute4x64_epi64(Load(f.mem, e - 64, 32), MM_SHUFFLE(0, 1, 2, 3))
         IN  Shrink(Exchange(f, "imp8_avx512", a, e - 64, 64, Concat(B1, B2, 32),
                             Concat(A1, A2, 32), ImpRegion(n, 8), FALSE), 8)
    ELSE [f EXCEPT !.pc = "imp8_avx256"]

\* case sizeof(std::uint64_t)
Imp8_AVX512(f, n) ==
    IF HalfSpan(f) >= 8
    THEN LET a == ByteOff(f.Start, 8)
             e == ByteOff(SizeT(f.End + 1), 8)
             A1 == mm256_permute4x64_epi64(Load(f.mem, a, 32), MM_SHUFFLE(0, 1, 2, 3))
             A2 == mm256_permute4x64_epi64(Load(f.mem, a + 32, 32), MM_SHUFFLE(0, 1, 2, 3))
             B1 == mm256_permute4x64_epi64(Load(f.mem, e - 32, 32), MM_SHUFFLE(0, 1, 2, 3))
             B2 == mm256_permute4x64_epi64(Load(f.mem, e - 64, 32), MM_SHUFFLE(0, 1, 2, 3))
         IN  Shrink(Exchange(f, "imp8_avx512", a, e - 64, 64, Concat(B1, B2, 32),
                             Concat(A2, A1, 32), ImpRegion(n, 8), FALSE), 8)
    ELSE [f EXCEPT !.pc = "imp8_avx256"]

Imp8_AVX256(f, n) ==
    IF HalfSpan(f) >= 4
    THEN LET a == ByteOff(f.Start, 8)
             e == ByteOff(SizeT(f.End + 1), 8)
             A == mm256_permute4x64_epi64(Load(f.mem, a, 32), MM_SHUFFLE(0, 1, 2, 3))
             B == mm256_permute4x64_epi64(Load(f.mem, e - 32, 32), MM_SHUFFLE(0, 1, 2, 3))
         IN  Shrink(Exchange(f, "imp8_avx256", a, e - 32, 32, B, A,
                             ImpRegion(n, 8), FALSE), 4)
    ELSE [f EXCEPT !.pc = "imp8_sse"]

Imp8_SSE(f, n) ==
    IF HalfSpan(f) >= 2
    THEN LET a == ByteOff(f.Start, 8)
             e == ByteOff(SizeT(f.End + 1), 8)
             A0 == Load(f.mem, a, 16)
             B0 == Load(f.mem, e - 16, 16)
             A == mm_alignr_epi8(A0, A0, 8)
             B == mm_alignr_epi8(B0, B0, 8)
         IN  Shrink(Exchange(f, "imp8_sse", a, e - 16, 16, B, A,
                             ImpRegion(n, 8), FALSE), 2)
    ELSE [f EXCEPT !.pc = "imp_middle"]

\* case sizeof(std::uint32_t)
Imp4_AVX256(f, n) ==
    IF HalfSpan(f) >= 8
    THEN LET ShuffleRev == mm256_setr_epi32(<<7, 6, 5, 4, 3, 2, 1, 0>>)
             a == ByteOff(f.Start, 4)
             e == ByteOff(SizeT(f.End + 1), 4)
             A == mm256_permutevar8x32_epi32(Load(f.mem, a, 32), ShuffleRev)
             B == mm256_permutevar8x32_epi32(Load(f.mem, e - 32, 32), ShuffleRev)
         IN  Shrink(Exchange(f, "imp4_avx256", a, e - 32, 32, B, A,
                             ImpRegion(n, 4), FALSE), 8)
    ELSE [f EXCEPT !.pc = "imp4_sse"]

Imp4_SSE(f, n) ==
    IF HalfSpan(f) >= 4
    THEN LET a == ByteOff(f.Start, 4)
             e == ByteOff(SizeT(f.End + 1), 4)
             A == mm_shuffle_epi32(Load(f.mem, a, 16), MM_SHUFFLE(0, 1, 2, 3))
             B == mm_shuffle_epi32(Load(f.mem, e - 16, 16), MM_SHUFFLE(0, 1, 2, 3))
         IN  Shrink(Exchange(f, "imp4_sse", a, e - 16, 16, B, A,
                             ImpRegion(n, 4), FALSE), 4)
    ELSE [f EXCEPT !.pc = "imp_middle"]

\* case sizeof(std::uint16_t)
\* The 32-byte loop of two-byte elements with the one-byte shuffle mask.
Imp2_AVX256_ByteMask(f, n) ==
    IF HalfSpan(f) >= 16
    THEN LET ShuffleRev == mm256_set_epi8(
                 <<0, 1, 2, 3, 4, 5, 6, 7, 8, 9, 10, 11, 12, 13, 14, 15,
                   0, 1, 2, 3, 4, 5, 6, 7, 8, 9, 10, 11, 12, 13, 14, 15>>)
             a == ByteOff(f.Start, 2)
             e == ByteOff(SizeT(f.End + 1), 2)
             A0 == mm256_shuffle_epi8(Load(f.mem, a, 32), ShuffleRev)
             B0 == mm256_shuffle_epi8(Load(f.mem, e - 32, 32), ShuffleRev)
             A == mm256_permute2f128_si256(A0, A0, 1)
             B == mm256_permute2f128_si256(B0, B0, 1)
         IN  Shrink(Exchange(f, "imp2_avx256", a, e - 32, 32, B, A,
                             ImpRegion(n, 2), FALSE), 16)
    ELSE [f EXCEPT !.pc = "imp2_sse"]

Imp2_AVX256(f, n) ==
    IF HalfSpan(f) >= 16
    THEN LET ShuffleRev == mm256_set_epi8(
                 <<1, 0, 3, 2, 5, 4, 7, 6, 9, 8, 11, 10, 13, 12, 15, 14,
                   1, 0, 3, 2, 5, 4, 7, 6, 9, 8, 11, 10, 13, 12, 15, 14>>)
             a == ByteOff(f.Start, 2)
             e == ByteOff(SizeT(f.End + 1), 2)
             A0 == mm256_shuffle_epi8(Load(f.mem, a, 32), ShuffleRev)
             B0 == mm256_shuffle_epi8(Load(f.mem, e - 32, 32), ShuffleRev)
             A == mm256_permute2f128_si256(A0, A0, 1)
             B == mm256_permute2f128_si256(B0, B0, 1)
         IN  Shrink(Exchange(f, "imp2_avx256", a, e - 32, 32, B, A,
                             ImpRegion(n, 2), FALSE), 16)
    ELSE [f EXCEPT !.pc = "imp2_sse"]

Imp2_SSE(f, n) ==
    IF HalfSpan(f) >= 8
    THEN LET ShuffleRev == mm_set_epi8(
                 <<1, 0, 3, 2, 5, 4, 7, 6, 9, 8, 11, 10, 13, 12, 15, 14>>)
             a == ByteOff(f.Start, 2)
             e == ByteOff(SizeT(f.End + 1), 2)
             A == mm_shuffle_epi8(Load(f.mem, a, 16), ShuffleRev)
             B == mm_shuffle_epi8(Load(f.mem, e - 16, 16), ShuffleRev)
         IN  Shrink(Exchange(f, "imp2_sse", a, e - 16, 16, B, A,
                             ImpRegion(n, 2), FALSE), 8)
    ELSE [f EXCEPT !.pc = "imp_middle"]

\* case sizeof(std::uint8_t)
Imp1_AVX256(f, n) ==
    IF HalfSpan(f) >= 32
    THEN LET ShuffleRev == mm256_set_epi8(
                 <<0, 1, 2, 3, 4, 5, 6, 7, 8, 9, 10, 11, 12, 13, 14, 15,
                   0, 1, 2, 3, 4, 5, 6, 7, 8, 9, 10, 11, 12, 13, 14, 15>>)
             a == ByteOff(f.Start, 1)
             e == ByteOff(SizeT(f.End + 1), 1)
             A0 == mm256_shuffle_epi8(Load(f.mem, a, 32), ShuffleRev)
             B0 == mm256_shuffle_epi8(Load(f.mem, e - 32, 32), ShuffleRev)
             A == mm256_permute2f128_si256(A0, A0, 1)
             B == mm256_permute2f128_si256(B0, B0, 1)
         IN  Shrink(Exchange(f, "imp1_avx256", a, e - 32, 32, B, A,
                             ImpRegion(n, 1), FALSE), 32)
    ELSE [f EXCEPT !.pc = "imp1_sse"]

Imp1_SSE(f, n) ==
    IF HalfSpan(f) >= 16
    THEN LET ShuffleRev == mm_set_epi8(
                 <<0, 1, 2, 3, 4, 5, 6, 7, 8, 9, 10, 11, 12, 13, 14, 15>>)
             a == ByteOff(f.Start, 1)
             e == ByteOff(SizeT(f.End + 1), 1)
             A == mm_shuffle_epi8(Load(f.mem, a, 16), ShuffleRev)
             B == mm_shuffle_epi8(Load(f.mem, e - 16, 16), ShuffleRev)
         IN  Shrink(Exchange(f, "imp1_sse", a, e - 16, 16, B, A,
                             ImpRegion(n, 1), FALSE), 16)
    ELSE [f EXCEPT !.pc = "imp1_bswap64"]

Imp1_BSWAP64(f, n) ==
    IF HalfSpan(f) >= 8
    THEN LET a == ByteOff(f.Start, 1)
             e == ByteOff(SizeT(f.End + 1), 1)
             A == Swap64(BitsOf(Load(f.mem, a, 8), 8))
             B == Swap64(BitsOf(Load(f.mem, e - 8, 8), 8))
         IN  Shrink(Exchange(f, "imp1_bswap64", a, e - 8, 8, BytesOf(B, 8),
                             BytesOf(A, 8), ImpRegion(n, 1), FALSE), 8)
    ELSE [f EXCEPT !.pc = "imp1_bswap32"]

Imp1_BSWAP32(f, n) ==
    IF HalfSpan(f) >= 4
    THEN LET a == ByteOff(f.Start, 1)
             e == ByteOff(SizeT(f.End + 1), 1)
             A == Swap32(BitsOf(Load(f.mem, a, 4), 4))
             B == Swap32(BitsOf(Load(f.mem, e - 4, 4), 4))
         IN  Shrink(Exchange(f, "imp1_bswap32", a, e - 4, 4, BytesOf(B, 4),
                             BytesOf(A, 4), ImpRegion(n, 1), FALSE), 4)
    ELSE [f EXCEPT !.pc = "imp1_bswap16"]

Imp1_BSWAP16(f, n) ==
    IF HalfSpan(f) >= 2
    THEN LET a == ByteOff(f.Start, 1)
             e == ByteOff(SizeT(f.End + 1), 1)
             A == Swap16(BitsOf(Load(f.mem, a, 2), 2))
             B == Swap16(BitsOf(Load(f.mem, e - 2, 2), 2))
         IN  Shrink(Exchange(f, "imp1_bswap16", a, e - 2, 2, BytesOf(B, 2),
                             BytesOf(A, 2), ImpRegion(n, 1), FALSE), 2)
    ELSE [f EXCEPT !.pc = "imp_middle"]

\* Middle cases: if( Start < End ) while( Start < End ) std::swap(...)
Imp_Middle(f, n, S, trap) ==
    IF f.Start < f.End
    THEN LET a == ByteOff(f.Start, S)
             b == ByteOff(f.End, S)
         IN  Shrink(Exchange(f, "imp_middle", a, b, S, Load(f.mem, b, S),
                             Load(f.mem, a, S), ImpRegion(n, S), trap), 1)
    ELSE [f EXCEPT !.pc = "done"]

\* switch( sizeof(Type) ): the first loop of the selected case.
ImpSwitch(S) ==
    CASE S = 16 -> "imp_middle"
      [] S = 8 -> "imp8_avx512"
      [] S = 4 -> "imp4_avx256"
      [] S = 2 -> "imp2_avx256"
      [] S = 1 -> "imp1_avx256"
      [] OTHER -> "imp_middle"

\* qreverse(Values, Size): qreverse_imp(Values, 0, Size - 1)
QreverseEntry(f, n, S) ==
    [f EXCEPT !.Start = 0, !.End = SizeT(n - 1), !.pc = ImpSwitch(S),
              !.log = <<>>, !.written = {}, !.rewritten = {}, !.touched = {}]

\* One loop-condition evaluation of qreverse_imp, whichever loop it is in.
ImpStep(f, n, S, trap) ==
    CASE f.pc = "imp8_avx512" -> Imp8_AVX512(f, n)
      [] f.pc = "imp8_avx256" -> Imp8_AVX256(f, n)
      [] f.pc = "imp8_sse" -> Imp8_SSE(f, n)
      [] f.pc = "imp4_avx256" -> Imp4_AVX256(f, n)
      [] f.pc = "imp4_sse" -> Imp4_SSE(f, n)
      [] f.pc = "imp2_avx256" -> Imp2_AVX256(f, n)
      [] f.pc = "imp2_sse" -> Imp2_SSE(f, n)
      [] f.pc = "imp1_avx256" -> Imp1_AVX256(f, n)
      [] f.pc = "imp1_sse" -> Imp1_SSE(f, n)
      [] f.pc = "imp1_bswap64" -> Imp1_BSWAP64(f, n)
      [] f.pc = "imp1_bswap32" -> Imp1_BSWAP32(f, n)
      [] f.pc = "imp1_bswap16" -> Imp1_BSWAP16(f, n)
      [] f.pc = "imp_middle" -> Imp_Middle(f, n, S, trap)
      [] OTHER -> f

\* ------------------------------------------------------------ behaviour
\* A caller owns a buffer of Count elements of ElementSize bytes and is about
\* to reverse it with one of the two entry points.
Init ==
    /\ impl \in {"qReverse", "qreverse"}
    /\ ElementSize \in ElementSizes
    /\ Count \in 0..(MaxBytes \div ElementSize)
    /\ feat \in (IF impl = "qReverse" THEN SUBSET Features ELSE {{}})
    /\ pat \in 1..NumPatterns
    /\ calls = 0
    /\ pc = "idle"
    /\ i = 0 /\ j = 0 /\ Start = 0 /\ End = 0
    /\ mem = InitMem(pat)
    /\ log = <<>> /\ written = {} /\ rewritten = {} /\ touched = {}
    /\ swIn = <<>> /\ swOut = <<>>

\* The caller calls qReverse<ElementSize>(Array, Count).
Call_qReverse ==
    /\ impl = "qReverse" /\ pc \in {"idle", "done"} /\ calls < MaxCalls
    /\ calls' = calls + 1
    /\ SetFrame(QReverseEntry(Frame, ElementSize, feat))

\* The caller calls qreverse<Type>(Values, Count), sizeof(Type) = ElementSize.
Call_qreverse ==
    /\ impl = "qreverse" /\ pc \in {"idle", "done"} /\ calls < MaxCalls
    /\ calls' = calls + 1
    /\ SetFrame(QreverseEntry(Frame, Count, ElementSize))

Loop(label, f) == pc = label /\ SetFrame(f) /\ UNCHANGED calls

L_Q1_AVX512 == Loop("q1_avx512", Q1_AVX512(Frame, Count, feat))
L_Q1_AVX2 == Loop("q1_avx2", Q1_AVX2(Frame, Count, feat))
L_Q1_SSSE3 == Loop("q1_ssse3", Q1_SSSE3(Frame, Count, feat))
L_Q1_BSWAP64 == Loop("q1_bswap64", Q1_BSWAP64(Frame, Count, feat))
L_Q1_BSWAP32 == Loop("q1_bswap32", Q1_BSWAP32(Frame, Count, feat))
L_Q1_BSWAP16 == Loop("q1_bswap16", Q1_BSWAP16(Frame, Count, feat))
L_Q1_Naive == Loop("q1_naive", Q1_Naive(Frame, Count))
L_Q2_SSSE3 == Loop("q2_ssse3", Q2_SSSE3(Frame, Count, feat))
L_Q2_Naive == Loop("q2_naive", Q2_Naive(Frame, Count))
L_Q4_SSSE3 == Loop("q4_ssse3", Q4_SSSE3(Frame, Count, feat))
L_Q4_Naive == Loop("q4_naive", Q4_Naive(Frame, Count))
L_QN_Naive == Loop("qN_naive", QN_Naive(Frame, Count, ElementSize))

L_Imp8_AVX512 == Loop("imp8_avx512", Imp8_AVX512(Frame, Count))
L_Imp8_AVX256 == Loop("imp8_avx256", Imp8_AVX256(Frame, Count))
L_Imp8_SSE == Loop("imp8_sse", Imp8_SSE(Frame, Count))
L_Imp4_AVX256 == Loop("imp4_avx256", Imp4_AVX256(Frame, Count))
L_Imp4_SSE == Loop("imp4_sse", Imp4_SSE(Frame, Count))
L_Imp2_AVX256 == Loop("imp2_avx256", Imp2_AVX256(Frame, Count))
L_Imp2_SSE == Loop("imp2_sse", Imp2_SSE(Frame, Count))
L_Imp1_AVX256 == Loop("imp1_avx256", Imp1_AVX256(Frame, Count))
L_Imp1_SSE == Loop("imp1_sse", Imp1_SSE(Frame, Count))
L_Imp1_BSWAP64 == Loop("imp1_bswap64", Imp1_BSWAP64(Frame, Count))
L_Imp1_BSWAP32 == Loop("imp1_bswap32", Imp1_BSWAP32(Frame, Count))
L_Imp1_BSWAP16 == Loop("imp1_bswap16", Imp1_BSWAP16(Frame, Count))
L_Imp_Middle ==
    \E trap \in BOOLEAN :
        Loop("imp_middle", Imp_Middle(Frame, Count, ElementSize, trap))

Next ==
    \/ Call_qReverse \/ Call_qreverse
    \/ L_Q1_AVX512 \/ L_Q1_AVX2 \/ L_Q1_SSSE3
    \/ L_Q1_BSWAP64 \/ L_Q1_BSWAP32 \/ L_Q1_BSWAP16 \/ L_Q1_Naive
    \/ L_Q2_SSSE3 \/ L_Q2_Naive \/ L_Q4_SSSE3 \/ L_Q4_Naive \/ L_QN_Naive
    \/ L_Imp8_AVX512 \/ L_Imp8_AVX256 \/ L_Imp8_SSE
    \/ L_Imp4_AVX256 \/ L_Imp4_SSE \/ L_Imp2_AVX256 \/ L_Imp2_SSE
    \/ L_Imp1_AVX256 \/ L_Imp1_SSE
    \/ L_Imp1_BSWAP64 \/ L_Imp1_BSWAP32 \/ L_Imp1_BSWAP16
    \/ L_Imp_Middle

Spec == Init /\ [][Next]_vars

\* ---------------------------------------- the byte-swap helpers on their own
SwapByte(k) == (k * 91 + 74) % 256
SwapByteVals == {SwapByte(k) : k \in 1..NumSwapBytes}
SwapInputs == UNION {[0..(n - 1) -> SwapByteVals] : n \in {2, 4, 8}}
Width(r) == Cardinality(DOMAIN r)

InitSwap ==
    /\ impl = "swap" /\ ElementSize = 1 /\ Count = 0 /\ feat = {} /\ pat = 1
    /\ calls = 0 /\ pc = "swap"
    /\ i = 0 /\ j = 0 /\ Start = 0 /\ End = 0
    /\ mem = InitMem(1)
    /\ log = <<>> /\ written = {} /\ rewritten = {} /\ touched = {}
    /\ swIn \in SwapInputs /\ swOut = <<>>

Apply(n, r) ==
    /\ pc = "swap" /\ Width(swIn) = n
    /\ swOut' = r /\ pc' = "swapped"
    /\ UNCHANGED <<impl, ElementSize, Count, feat, pat, calls, i, j, Start,
                   End, mem, log, written, rewritten, touched, swIn>>

ApplySwap16 == Apply(2, BytesOf(Swap16(BitsOf(swIn, 2)), 2))
ApplySwap32 == Apply(4, BytesOf(Swap32(BitsOf(swIn, 4)), 4))
ApplySwap64 == Apply(8, BytesOf(Swap64(BitsOf(swIn, 8)), 8))

NextSwap == ApplySwap16 \/ ApplySwap32 \/ ApplySwap64

SpecSwap == InitSwap /\ [][NextSwap]_vars

\* ------------------------------------------------------------- properties
Done == pc = "done"

\* The byte at address a before the first call.
Initially(a) == InitMem(pat)[a]

\* Element e of the array holds the initial bytes of element d.
ElementIs(e, d) ==
    \A k \in 0..(ElementSize - 1) :
        mem[e * ElementSize + k] = Initially(d * ElementSize + k)

\* C1: after qReverse<S>(Array, Count) returns, element i holds, byte for
\* byte and in the same order, the initial bytes of element Count-1-i.
C1_ElementwiseReverse ==
    (impl = "qReverse" /\ Done /\ calls = 1) =>
        \A e \in 0..(Count - 1) : ElementIs(e, Count - 1 - e)

C1_Witness ==
    impl = "qReverse" /\ Done /\ calls = 1 /\ Count >= 2
    /\ mem[0] # Initially(0)

\* C2: after qreverse<Type>(Values, Size) returns, Size >= 1, Values[i] holds
\* the initial Values[Size-1-i]; a strictly ascending array of bytes has
\* become strictly descending.
C2_QreverseReverses ==
    (impl = "qreverse" /\ Done /\ calls = 1 /\ Count >= 1) =>
        /\ \A e \in 0..(Count - 1) : ElementIs(e, Count - 1 - e)
        /\ (pat = 1 /\ ElementSize = 1) =>
               \A e \in 0..(Count - 2) : mem[e] > mem[e + 1]

C2_Witness ==
    impl = "qreverse" /\ Done /\ calls = 1 /\ Count >= 2
    /\ mem[0] # Initially(0)

\* C3: no byte outside [A, A+N*S) is read or written by a call, for every
\* N >= 0 and both entry points, and the guard bytes around the array keep
\* their values.
C3_NoAccessOutsideRegion ==
    /\ touched \subseteq Region
    /\ \A a \in Addr \ Region : mem[a] = Initially(a)

\* C4: a call with N <= 1 executes no step and writes no byte, in both
\* entry points.
C4_SmallCountIsNoOp ==
    Count <= 1 => (log = <<>> /\ written = {} /\ mem = InitMem(pat))

\* Addresses of the blocks of one logged step.
StepBytes(s) == (s.lo..(s.lo + s.w - 1)) \cup ((s.hi - s.w)..(s.hi - 1))

\* C5: within one call no byte is stored to twice: the blocks of any two
\* distinct steps are disjoint, and so are the two blocks of one step
\* (qReverse<S> for every N, qreverse<Type> for N >= 1).
C5_WrittenAtMostOnce ==
    (impl = "qReverse" \/ (impl = "qreverse" /\ Count >= 1)) =>
        /\ rewritten = {}
        /\ \A m \in 1..Len(log) : \A n \in 1..Len(log) :
               m < n => StepBytes(log[m]) \cap StepBytes(log[n]) = {}

C5_Witness ==
    Done /\ Len(log) >= 3 /\ log[1].tier # log[Len(log)].tier
    /\ rewritten = {}

\* The bytes of the elements [0, N/2) and [N - N/2, N).
Halves ==
    (0..((Count \div 2) * ElementSize - 1))
    \cup (((Count - Count \div 2) * ElementSize)..(Count * ElementSize - 1))

\* C6: the positions touched by the steps of a call are exactly the elements
\* [0, floor(N/2)) and [N - floor(N/2), N); the middle element of an odd N
\* is never touched.
C6_TouchedExactlyHalves ==
    /\ touched \subseteq Halves
    /\ Done => touched = Halves

\* C7: two successive reversals with the same N restore the buffer.
C7_DoubleReversalIdentity ==
    (Done /\ calls = 2) => \A a \in Addr : mem[a] = Initially(a)

C7_Witness ==
    Done /\ calls = 2 /\ Count >= 2 /\ log # <<>>
    /\ \E a \in Region : Initially(a) # Initially(Count * ElementSize - 1 - a)

\* qReverse<S> run to its return from frame f.
RECURSIVE RunQReverse(_, _, _, _)
RunQReverse(f, n, S, fs) ==
    IF f.pc \in {"done", "fault"} THEN f
    ELSE RunQReverse(QReverseStep(f, n, S, fs), n, S, fs)

\* The buffer qReverse<S> leaves when no SIMD feature macro is defined.
ScalarResult ==
    RunQReverse(
        QReverseEntry([pc |-> "idle", i |-> 0, j |-> 0, Start |-> 0, End |-> 0,
                       mem |-> InitMem(pat), log |-> <<>>, written |-> {},
                       rewritten |-> {}, touched |-> {}], ElementSize, {}),
        Count, ElementSize, {}).mem

\* C8: whatever SIMD loops are compiled in, qReverse<1>, <2> and <4> leave
\* the buffer that the build without any SIMD loop leaves.
C8_FeatureIndependent ==
    (impl = "qReverse" /\ ElementSize \in {1, 2, 4} /\ Done /\ calls = 1) =>
        mem = ScalarResult

SimdTiers == {"q1_avx512", "q1_avx2", "q1_ssse3", "q2_ssse3", "q4_ssse3"}

C8_Witness ==
    impl = "qReverse" /\ Done /\ calls = 1 /\ feat # {}
    /\ \E m \in 1..Len(log) : log[m].tier \in SimdTiers
    /\ mem # InitMem(pat)

\* C9: Swap16, Swap32 and Swap64 reverse the bytes of their operand: output
\* byte k is input byte n-1-k.
C9_SwapReversesBytes ==
    pc = "swapped" =>
        /\ DOMAIN swOut = DOMAIN swIn
        /\ \A k \in DOMAIN swIn : swOut[k] = swIn[Width(swIn) - 1 - k]

C9_Witness ==
    pc = "swapped" /\ Width(swIn) = 8 /\ swOut # swIn /\ swIn[0] # swIn[7]

\* The lower and upper cursors of the running call, in bytes.
LowerCursor == IF impl = "qReverse" THEN i * ElementSize ELSE Start * ElementSize
UpperCursor ==
    IF impl = "qReverse" THEN (Count - i) * ElementSize
    ELSE (End + 1) * ElementSize

\* C10: a step of width W runs only when U - L >= 2W, so its two blocks do
\* not overlap, and L <= U in every state of a call (N >= 1).
C10_StepNeedsTwoWidths ==
    (Count >= 1 /\ pc # "idle") =>
        /\ LowerCursor <= UpperCursor
        /\ \A m \in 1..Len(log) :
               /\ log[m].hi - log[m].lo >= 2 * log[m].w
               /\ (log[m].lo..(log[m].lo + log[m].w - 1))
                      \cap ((log[m].hi - log[m].w)..(log[m].hi - 1)) = {}

C10_Witness ==
    Count >= 1 /\ Done /\ Len(log) >= 2
    /\ \E m \in 1..Len(log) : log[m].hi - log[m].lo = 2 * log[m].w

\* The bytes one step of loop t exchanges at each end.
TierWidth(t) ==
    CASE t \in {"q1_avx512", "imp8_avx512"} -> 64
      [] t \in {"q1_avx2", "imp8_avx256", "imp4_avx256", "imp2_avx256",
                "imp1_avx256"} -> 32
      [] t \in {"q1_ssse3", "q2_ssse3", "q4_ssse3", "imp8_sse", "imp4_sse",
                "imp2_sse", "imp1_sse"} -> 16
      [] t \in {"q1_bswap64", "imp1_bswap64"} -> 8
      [] t \in {"q1_bswap32", "imp1_bswap32"} -> 4
      [] t \in {"q1_bswap16", "imp1_bswap16"} -> 2
      [] OTHER -> ElementSize

\* The loops of qReverse<1> and of qreverse_imp that step wider than one
\* element.
WideTiers ==
    {"q1_avx512", "q1_avx2", "q1_ssse3", "q1_bswap64", "q1_bswap32",
     "q1_bswap16", "imp8_avx512", "imp8_avx256", "imp8_sse", "imp4_avx256",
     "imp4_sse", "imp2_avx256", "imp2_sse", "imp1_avx256", "imp1_sse",
     "imp1_bswap64", "imp1_bswap32", "imp1_bswap16"}

\* Bytes of the middle not yet exchanged, as the running call sees them.
Remaining ==
    IF impl = "qReverse" THEN (Count - 2 * i) * ElementSize
    ELSE SizeT(End - Start + 1) * ElementSize

\* C11: a loop of width W is left only when the remaining middle is smaller
\* than 2W bytes, in qReverse<1> for every feature combination and in
\* qreverse_imp.
C11_TierDrained ==
    [][(pc \in WideTiers /\ pc' # pc /\ pc' # "fault") =>
           Remaining < 2 * TierWidth(pc)]_vars

\* The scalar byte-swap loops.
BswapTiers ==
    {"q1_bswap64", "q1_bswap32", "q1_bswap16",
     "imp1_bswap64", "imp1_bswap32", "imp1_bswap16"}

\* C12: two- and four-byte elements are moved whole: every step has width
\* 32, 16 or one element, is no byte-swap step, and leaves each element of
\* one block, bytes in their order, at the mirrored place of the other.
C12_ElementsMovedWhole ==
    [][(ElementSize \in {2, 4} /\ Len(log') = Len(log) + 1 /\ pc' # "fault") =>
           LET s == log'[Len(log')]
               S == ElementSize
           IN  /\ s.w \in {32, 16, S}
               /\ s.tier \notin BswapTiers
               /\ \A e \in 0..((s.w \div S) - 1) : \A k \in 0..(S - 1) :
                      /\ mem'[s.lo + e * S + k] = mem[s.hi - (e + 1) * S + k]
                      /\ mem'[s.hi - (e + 1) * S + k] = mem[s.lo + e * S + k]]_vars

C12_Witness ==
    /\ ElementSize \in {2, 4} /\ Done /\ calls = 1 /\ pat = 1
    /\ \E m \in 1..Len(log) : log[m].w = 32
    /\ \E m \in 1..Len(log) : log[m].w = 16
    /\ \E m \in 1..Len(log) : log[m].w = ElementSize
    /\ mem[0] = Initially((Count - 1) * ElementSize)
    /\ mem[1] = Initially((Count - 1) * ElementSize + 1)

\* C13: the steps of a call never go back to a larger width, and from each
\* step to the next the lower cursor strictly increases and the upper
\* cursor strictly decreases.
C13_StepsOrdered ==
    \A m \in 1..(Len(log) - 1) :
        /\ log[m].w >= log[m + 1].w
        /\ log[m].lo < log[m + 1].lo
        /\ log[m].hi > log[m + 1].hi

C13_Witness ==
    /\ Done /\ Len(log) >= 4
    /\ log[1].w > log[2].w
    /\ log[Len(log) - 1].w > log[Len(log)].w

\* C14: every call reaches its return after finitely many steps.  A call
\* ends either at its return or in a trap, and every step exchanges at least
\* one element at each end, so a call that returns never traps and takes at
\* most Count/2 steps.
C14_ReturnsWithinBound ==
    /\ pc # "fault"
    /\ Len(log) <= Count \div 2

\* Elements consumed at the lower end by the running call.
Consumed == IF impl = "qReverse" THEN i ELSE Start

\* C15: between any two steps of a call, with L elements consumed at the
\* lower end, the upper cursor mirrors the lower one, the elements of
\* [0, L) and [N-L, N) hold their final values and those of [L, N-L) their
\* initial ones (qReverse<S> for every N, qreverse_imp for Size >= 1).
C15_LoopInvariant ==
    (calls = 1 /\ pc \notin {"idle", "fault"}
     /\ (impl = "qReverse" \/ Count >= 1)) =>
        /\ impl = "qreverse" => Start + End = Count - 1
        /\ \A m \in 1..Len(log) : log[m].hi = Count * ElementSize - log[m].lo
        /\ (log # <<>>) =>
               UpperCursor = log[Len(log)].hi - log[Len(log)].w
        /\ \A e \in 0..(Count - 1) :
               IF e < Consumed \/ e >= Count - Consumed
               THEN ElementIs(e, Count - 1 - e)
               ELSE ElementIs(e, e)

C15_Witness ==
    /\ calls = 1 /\ pc \notin {"idle", "done", "fault"} /\ pat = 1
    /\ Consumed > 0 /\ 2 * Consumed + 1 < Count
    /\ mem[0] # Initially(0)
    /\ mem[Consumed * ElementSize] = Initially(Consumed * ElementSize)

\* Steps of the final element-by-element loop taken by the running call.
NaiveSteps ==
    Cardinality({m \in 1..Len(log) : log[m].tier \in {"q1_naive", "imp_middle"}})

\* C16: for one-byte elements the final naive loop is entered with fewer
\* than 4 bytes left in the middle and swaps at most once per call
\* (qReverse<1> for every feature combination, qreverse_imp for Size >= 1).
C16_TailAtMostOneSwap ==
    (ElementSize = 1 /\ pc # "idle" /\ (impl = "qReverse" \/ Count >= 1)) =>
        /\ NaiveSteps <= 1
        /\ (pc \in {"q1_naive", "imp_middle"} /\ NaiveSteps = 0) => Remaining < 4

C16_Witness ==
    /\ ElementSize = 1 /\ Done /\ Count >= 16 /\ NaiveSteps = 1
    /\ Len(log) >= 3
====
